---- MODULE Spec2Model ----
(***************************************************************************)
(* Model of src/debate-interface.tsx: the DebateInterface React component. *)
(*                                                                         *)
(* The component's useState/useRef cells are the variables.  Every click   *)
(* of the Talk button calls handleListeningToggle of the latest render, so *)
(* a handler reads the committed state.  Each asynchronous wait of the     *)
(* code (getUserMedia, the recorder's stop task, FileReader, fetch,        *)
(* audio.play, setTimeout) is a position of a capture, and the code that   *)
(* runs when the wait ends is one action.                                  *)
(*                                                                         *)
(* The presentation cells audioLevel, showTranscript and                   *)
(* recentlyStoppedListening (with its 5 s timer and the interval of lines  *)
(* 31-39) are written but never read by a handler; they are left out.      *)
(*                                                                         *)
(* A capture c in Captures is one call of handleListeningToggle's start    *)
(* branch: its getUserMedia call, the stream and the MediaRecorder it      *)
(* creates, and the onstop closure of that recorder.                       *)
(***************************************************************************)
EXTENDS Integers, Sequences, FiniteSets, TLC

\* Bounds of the model.
MaxTurns == 2          \* calls of the start branch of handleListeningToggle
MaxHist == 4           \* turns in a history that FormatSpec formats
MaxRuns == 5           \* page loads (runs of the mount effect) of StartupSpec

Captures == 1..MaxTurns

\* localStorage.getItem('conversationId') before the first mount: "" is null.
StoredIds == {"", "c0"}
\* values crypto.randomUUID() can return
MintedIds == {"u1", "u2"}

\* turn.ai_response of a history turn: missing, empty string, or a text
HistReplies == {"undefined", "", "Earlier reply."}
\* data.ai_response_text of a debate-turn reply
ReplyTexts == {"Good point."}
\* data.ai_response_audio_base64 of a debate-turn reply: missing or a string
ReplyAudios == {"undefined", "data"}

RECURSIVE SeqsUpTo(_, _)
SeqsUpTo(S, n) ==
    IF n = 0 THEN {<<>>}
    ELSE LET shorter == SeqsUpTo(S, n - 1)
         IN  shorter \cup {Append(q, x) : q \in {r \in shorter : Len(r) = n - 1}, x \in S}

\* the lists FormatSpec formats
FormatInputs == SeqsUpTo(HistReplies, MaxHist)

\* the lists the history fetch of Spec resolves to: no turn, or one turn of
\* each kind
Histories == {<<>>} \cup {<<r>> : r \in HistReplies}

VARIABLES
    mounted,                  \* the mount effect (lines 19-29) has run
    unmounted,                \* the component has been unmounted
    storage,                  \* localStorage['conversationId'], "" when absent
    storageWrites,            \* calls of localStorage.setItem (line 27) so far
    ensured,                  \* the id each run of the mount effect has set
    conversationId,           \* useState("")
    historyFetch,             \* the fetch of line 43: "none", "pending", or how
                              \* loadConversationHistory ended: "notFound",
                              \* "httpError", "threw", "loaded"
    history,                  \* history of line 53 where a specification fixes
                              \* the server's answer in advance (FormatSpec);
                              \* Spec lets the server answer anything and
                              \* leaves the cell empty
    isListening,              \* useState(false)
    isThinking,               \* useState(false)
    mediaRecorder,            \* useState(null): 0 is null, else a capture
    audioChunks,              \* useRef([]).current: owners of the fragments
    transcript,               \* useState([])
    phase,                    \* position of every capture
    micOpen,                  \* captures whose getUserMedia stream is live
    convAt,                   \* conversationId closed over by a capture
    blob,                     \* audioBlob built by onstop
    request,                  \* body of the debate-turn request of a capture
    reply,                    \* data = await response.json(), line 127
    playing                   \* captures whose audio.play() has not settled

vars == <<mounted, unmounted, storage, storageWrites, ensured, conversationId,
          historyFetch, history, isListening,
          isThinking, mediaRecorder,
          audioChunks, transcript, phase, micOpen, convAt, blob, request,
          reply, playing>>

\* ------------------------------------------------------------------------
\* Transcript entries

Entry(speaker, message) == [speaker |-> speaker, message |-> message]

HumanEntry == Entry("You", "Audio Turn")

AgentEntry(text) == Entry("AI", text)

ExchangeErrorEntry == Entry("System", "Error processing audio.")

NoHistoryEntry == Entry("System", "No conversation history found.")

HistoryErrorEntry == Entry("System", "Error loading conversation history.")

\* JavaScript truthiness of an optional string
Truthy(v) == v # "undefined" /\ v # ""

\* history.map(turn => ({speaker: ..., message: ...})), lines 54-57
FormatTurn(ai_response) ==
    Entry(IF Truthy(ai_response) THEN "AI" ELSE "You",
          IF Truthy(ai_response) THEN ai_response ELSE "Audio Turn")

FormattedTranscript(turns) ==
    [i \in 1..Len(turns) |-> FormatTurn(turns[i])]

\* ------------------------------------------------------------------------
\* blobToBase64, lines 101-108

\* new Blob(audioChunks.current): the fragments concatenated in order
NewBlob(chunks) == chunks

\* reader.readAsDataURL(blob): "data:audio/webm;base64,<body>"
ReadAsDataURL(b) == <<"data:audio/webm;base64", [base64 |-> b]>>

\* reader.result.split(',')[1]
BlobToBase64(b) == ReadAsDataURL(b)[2]

\* ------------------------------------------------------------------------

\* The initial values of lines 9-17 and the localStorage the page finds.
InitialCells ==
    /\ mounted = FALSE
    /\ unmounted = FALSE
    /\ storage \in StoredIds
    /\ storageWrites = 0
    /\ ensured = <<>>
    /\ conversationId = ""
    /\ historyFetch = "none"
    /\ isListening = FALSE
    /\ isThinking = FALSE
    /\ mediaRecorder = 0
    /\ audioChunks = <<>>
    /\ transcript = <<>>
    /\ phase = [c \in Captures |-> "free"]
    /\ micOpen = {}
    /\ convAt = [c \in Captures |-> ""]
    /\ blob = [c \in Captures |-> <<>>]
    /\ request = [c \in Captures |-> <<>>]
    /\ reply = [c \in Captures |-> <<>>]
    /\ playing = {}

Init ==
    /\ InitialCells
    /\ history = <<>>

\* A test that never finds the stored id, so every run mints one.
HasStoredIdNever(storedConversationId) == FALSE

\* if (storedConversationId), line 21
HasStoredId(storedConversationId) == storedConversationId # ""

\* useEffect(..., []), lines 19-29
MountEffect ==
    /\ ~mounted
    /\ ~unmounted
    /\ mounted' = TRUE
    /\ IF HasStoredId(storage)
       THEN /\ conversationId' = storage
            /\ historyFetch' = "pending"
            /\ UNCHANGED <<storage, storageWrites>>
       ELSE \E newConversationId \in MintedIds :
            /\ conversationId' = newConversationId
            /\ storage' = newConversationId
            /\ storageWrites' = storageWrites + 1
            /\ UNCHANGED historyFetch
    /\ UNCHANGED history
    /\ ensured' = Append(ensured, conversationId')
    /\ UNCHANGED <<unmounted, isListening, isThinking, mediaRecorder,
                   audioChunks, transcript, phase, micOpen, convAt, blob,
                   request, reply, playing>>

\* A load that adds its result to the entries the transcript already holds.
HistoryLoadedKeeping(outcome, result) ==
    /\ historyFetch = "pending"
    /\ historyFetch' = outcome
    /\ transcript' = transcript \o result
    /\ UNCHANGED <<mounted, unmounted, storage, storageWrites, ensured, conversationId,
                   isListening, isThinking, mediaRecorder, audioChunks, phase,
                   micOpen, convAt, blob, request, reply, playing>>

\* loadConversationHistory after its fetch settles, lines 44-62: every path
\* ends in one setTranscript call.
HistoryLoaded(outcome, result) ==
    /\ historyFetch = "pending"
    /\ historyFetch' = outcome
    /\ transcript' = result
    /\ UNCHANGED <<mounted, unmounted, storage, storageWrites, ensured, conversationId,
                   isListening, isThinking, mediaRecorder, audioChunks, phase,
                   micOpen, convAt, blob, request, reply, playing>>

\* !response.ok and response.status === 404, lines 44-46
HistoryNotFound ==
    HistoryLoaded("notFound", <<NoHistoryEntry>>) /\ UNCHANGED history

\* !response.ok with another status, lines 47-50
HistoryHttpError ==
    HistoryLoaded("httpError", <<HistoryErrorEntry>>) /\ UNCHANGED history

\* fetch rejects, or response.json() rejects or resolves to something that
\* has no map: the catch block, lines 59-62
HistoryThrew ==
    HistoryLoaded("threw", <<HistoryErrorEntry>>) /\ UNCHANGED history

\* response.ok and response.json() resolves to the list turns, lines 53-58
HistoryOkWith(turns) ==
    HistoryLoaded("loaded", FormattedTranscript(turns)) /\ UNCHANGED history

HistoryOk == \E turns \in Histories : HistoryOkWith(turns)

\* ------------------------------------------------------------------------
\* handleListeningToggle, lines 65-99

\* The start branch up to its await (line 76): getUserMedia is called.  The
\* closures created after the await (onstop, and through it
\* sendAudioToBackend) belong to the render whose handler was clicked, and
\* hold that render's conversationId.
StartBranch(c, renderedConversationId) ==
    /\ ~unmounted
    /\ ~isListening
    /\ phase[c] = "free"
    /\ \A d \in Captures : d < c => phase[d] # "free"
    /\ phase' = [phase EXCEPT ![c] = "granting"]
    /\ convAt' = [convAt EXCEPT ![c] = renderedConversationId]
    /\ UNCHANGED <<mounted, unmounted, storage, storageWrites, ensured,
                   conversationId, historyFetch, history, isListening,
                   isThinking, mediaRecorder, audioChunks, transcript,
                   micOpen, blob, request, reply, playing>>

\* A click on "Start Listening" in a render that follows the mount effect.
BeginTurn(c) ==
    /\ mounted
    /\ StartBranch(c, conversationId)

\* A click on "Start Listening" in the first render, whose conversationId is
\* the initial "" of line 13: the mount effect has not run, or the state it
\* set has not been rendered yet.
BeginTurnInFirstRender(c) ==
    /\ ~mounted
    /\ StartBranch(c, "")

\* getUserMedia rejects: the catch of line 95 logs the error.
GrantRejected(c) ==
    /\ phase[c] = "granting"
    /\ phase' = [phase EXCEPT ![c] = "denied"]
    /\ UNCHANGED <<mounted, unmounted, storage, storageWrites, ensured, conversationId,
                   historyFetch, history, isListening,
                   isThinking, mediaRecorder,
                   audioChunks, transcript, micOpen, convAt, blob, request,
                   reply, playing>>

\* getUserMedia resolves and new MediaRecorder(stream) throws (line 77).
RecorderCreateFailed(c) ==
    /\ phase[c] = "granting"
    /\ phase' = [phase EXCEPT ![c] = "createFailed"]
    /\ micOpen' = micOpen \cup {c}
    /\ UNCHANGED <<mounted, unmounted, storage, storageWrites, ensured, conversationId,
                   historyFetch, history, isListening,
                   isThinking, mediaRecorder,
                   audioChunks, transcript, convAt, blob, request, reply, playing>>

\* getUserMedia resolves, lines 77-91 run and recorder.start() throws (line 92).
RecorderStartFailed(c) ==
    /\ phase[c] = "granting"
    /\ phase' = [phase EXCEPT ![c] = "startFailed"]
    /\ micOpen' = micOpen \cup {c}
    /\ mediaRecorder' = c
    /\ audioChunks' = <<>>
    /\ UNCHANGED <<mounted, unmounted, storage, storageWrites, ensured, conversationId,
                   historyFetch, history, isListening,
                   isThinking, transcript,
                   convAt, blob, request, reply, playing>>

\* getUserMedia resolves and lines 77-94 run to the end.
RecorderStarted(c) ==
    /\ phase[c] = "granting"
    /\ phase' = [phase EXCEPT ![c] = "recording"]
    /\ micOpen' = micOpen \cup {c}
    /\ mediaRecorder' = c
    /\ audioChunks' = <<>>
    /\ isListening' = TRUE
    /\ UNCHANGED <<mounted, unmounted, storage, storageWrites, ensured, conversationId,
                   historyFetch, history, isThinking,
                   transcript, convAt, blob, request, reply, playing>>

\* mediaRecorder && mediaRecorder.state === 'recording', line 67
IsRecording(r) == r # 0 /\ phase[r] = "recording"

\* The stop branch, lines 66-73.
EndTurn ==
    /\ mounted
    /\ ~unmounted
    /\ isListening
    /\ phase' = IF IsRecording(mediaRecorder)
                THEN [phase EXCEPT ![mediaRecorder] = "stopped"]
                ELSE phase
    /\ isListening' = FALSE
    /\ isThinking' = TRUE
    /\ UNCHANGED <<mounted, unmounted, storage, storageWrites, ensured, conversationId,
                   historyFetch, history,
                   mediaRecorder, audioChunks, transcript, micOpen, convAt,
                   blob, request, reply, playing>>

\* The task queued by recorder.stop(): ondataavailable (line 82) pushes the
\* recorded data, then onstop runs to its first await (lines 86-87).
RecorderStopTask(c) ==
    /\ phase[c] = "stopped"
    /\ audioChunks' = Append(audioChunks, c)
    /\ blob' = [blob EXCEPT ![c] = NewBlob(audioChunks')]
    /\ phase' = [phase EXCEPT ![c] = "encoding"]
    /\ UNCHANGED <<mounted, unmounted, storage, storageWrites, ensured, conversationId,
                   historyFetch, history, isListening,
                   isThinking, mediaRecorder,
                   transcript, micOpen, convAt, request, reply, playing>>

\* reader.onerror rejects the promise of blobToBase64 (line 105): the await
\* of line 87 throws and onstop ends there.
EncodeFailed(c) ==
    /\ phase[c] = "encoding"
    /\ phase' = [phase EXCEPT ![c] = "encodeFailed"]
    /\ UNCHANGED <<mounted, unmounted, storage, storageWrites, ensured, conversationId,
                   historyFetch, history, isListening,
                   isThinking, mediaRecorder,
                   audioChunks, transcript, micOpen, convAt, blob, request,
                   reply, playing>>

\* reader.onloadend resolves (line 104): onstop appends the placeholder
\* (line 88) and sendAudioToBackend issues its fetch (lines 112-121).
EncodeDone(c) ==
    /\ phase[c] = "encoding"
    /\ transcript' = Append(transcript, HumanEntry)
    /\ request' = [request EXCEPT ![c] =
                      [audio_data |-> BlobToBase64(blob[c]),
                       conversation_id |-> convAt[c]]]
    /\ phase' = [phase EXCEPT ![c] = "exchanging"]
    /\ UNCHANGED <<mounted, unmounted, storage, storageWrites, ensured, conversationId,
                   historyFetch, history, isListening,
                   isThinking, mediaRecorder,
                   audioChunks, micOpen, convAt, blob, reply, playing>>

\* ------------------------------------------------------------------------
\* sendAudioToBackend after its fetch settles, lines 123-135

\* the object response.json() resolves to
Replies == [ai_response_text : ReplyTexts, ai_response_audio_base64 : ReplyAudios]

\* A test that only rejects the empty string, so a missing field is played.
ShouldPlayUnlessEmpty(base64Audio) == base64Audio # ""

\* if (base64Audio), line 139
ShouldPlay(base64Audio) == Truthy(base64Audio)

\* The catch block, lines 131-135, after fetch rejects, the status is not ok
\* (line 124) or response.json() rejects (line 127).
ExchangeFailed(c) ==
    /\ phase[c] = "exchanging"
    /\ phase' = [phase EXCEPT ![c] = "exchangeFailed"]
    /\ transcript' = Append(transcript, ExchangeErrorEntry)
    /\ isThinking' = FALSE
    /\ UNCHANGED <<mounted, unmounted, storage, storageWrites, ensured, conversationId,
                   historyFetch, history, isListening,
                   mediaRecorder, audioChunks, micOpen, convAt, blob, request,
                   reply, playing>>

\* Lines 127-130 where playAudioFromBase64 returns: it has called
\* audio.play() (line 141) or only warned (line 145).
ExchangeReplied(c) ==
    /\ phase[c] = "exchanging"
    /\ \E data \in Replies :
        /\ reply' = [reply EXCEPT ![c] = data]
        /\ transcript' = Append(transcript, AgentEntry(data.ai_response_text))
        /\ playing' = IF ShouldPlay(data.ai_response_audio_base64)
                      THEN playing \cup {c}
                      ELSE playing
    /\ phase' = [phase EXCEPT ![c] = "replied"]
    /\ isThinking' = FALSE
    /\ UNCHANGED <<mounted, unmounted, storage, storageWrites, ensured, conversationId,
                   historyFetch, history, isListening,
                   mediaRecorder, audioChunks, micOpen, convAt, blob, request>>

\* Lines 127-129 where new Audio(...) or audio.play() throws inside
\* playAudioFromBase64 (lines 140-141): the update of line 128 is queued,
\* then the catch block of lines 131-135 runs.
ExchangePlayThrew(c) ==
    /\ phase[c] = "exchanging"
    /\ \E data \in Replies :
        /\ ShouldPlay(data.ai_response_audio_base64)
        /\ reply' = [reply EXCEPT ![c] = data]
        /\ transcript' = Append(Append(transcript, AgentEntry(data.ai_response_text)),
                                ExchangeErrorEntry)
    /\ phase' = [phase EXCEPT ![c] = "playThrew"]
    /\ isThinking' = FALSE
    /\ UNCHANGED <<mounted, unmounted, storage, storageWrites, ensured, conversationId,
                   historyFetch, history, isListening,
                   mediaRecorder, audioChunks, micOpen, convAt, blob, request,
                   playing>>

\* The promise of audio.play() rejects: line 142 logs the error.
PlaybackRejected(c) ==
    /\ c \in playing
    /\ playing' = playing \ {c}
    /\ UNCHANGED <<mounted, unmounted, storage, storageWrites, ensured, conversationId,
                   historyFetch, history, isListening,
                   isThinking, mediaRecorder, audioChunks, transcript, phase,
                   micOpen, convAt, blob, request, reply>>

\* The reply's audio plays to its end: no handler is attached.
PlaybackEnded(c) ==
    /\ c \in playing
    /\ playing' = playing \ {c}
    /\ UNCHANGED <<mounted, unmounted, storage, storageWrites, ensured, conversationId,
                   historyFetch, history, isListening,
                   isThinking, mediaRecorder, audioChunks, transcript, phase,
                   micOpen, convAt, blob, request, reply>>

\* ------------------------------------------------------------------------

Next ==
    \/ MountEffect
    \/ HistoryNotFound
    \/ HistoryHttpError
    \/ HistoryThrew
    \/ HistoryOk
    \/ \E c \in Captures : BeginTurn(c)
    \/ \E c \in Captures : GrantRejected(c)
    \/ \E c \in Captures : RecorderCreateFailed(c)
    \/ \E c \in Captures : RecorderStartFailed(c)
    \/ \E c \in Captures : RecorderStarted(c)
    \/ EndTurn
    \/ \E c \in Captures : RecorderStopTask(c)
    \/ \E c \in Captures : EncodeFailed(c)
    \/ \E c \in Captures : EncodeDone(c)
    \/ \E c \in Captures : ExchangeFailed(c)
    \/ \E c \in Captures : ExchangeReplied(c)
    \/ \E c \in Captures : ExchangePlayThrew(c)
    \/ \E c \in Captures : PlaybackRejected(c)
    \/ \E c \in Captures : PlaybackEnded(c)

Spec == Init /\ [][Next]_vars

\* ------------------------------------------------------------------------
\* The startup of successive page loads.

\* The page is loaded again: a new DebateInterface starts from the initial
\* values of lines 9-17 and pending work of the old page is gone;
\* localStorage is kept.
Reload ==
    /\ mounted
    /\ Len(ensured) < MaxRuns
    /\ mounted' = FALSE
    /\ unmounted' = FALSE
    /\ conversationId' = ""
    /\ historyFetch' = "none"
    /\ history' = <<>>
    /\ isListening' = FALSE
    /\ isThinking' = FALSE
    /\ mediaRecorder' = 0
    /\ audioChunks' = <<>>
    /\ transcript' = <<>>
    /\ phase' = [c \in Captures |-> "free"]
    /\ micOpen' = {}
    /\ convAt' = [c \in Captures |-> ""]
    /\ blob' = [c \in Captures |-> <<>>]
    /\ request' = [c \in Captures |-> <<>>]
    /\ reply' = [c \in Captures |-> <<>>]
    /\ playing' = {}
    /\ UNCHANGED <<storage, storageWrites, ensured>>

StartupNext ==
    \/ MountEffect
    \/ HistoryNotFound
    \/ HistoryHttpError
    \/ HistoryThrew
    \/ HistoryOk
    \/ Reload

StartupSpec == Init /\ [][StartupNext]_vars

\* ------------------------------------------------------------------------
\* The formatting of a loaded history, for every list the server can send.

\* A page load over a stored id, with the list that the history request
\* will be answered with.
FormatInit ==
    /\ InitialCells
    /\ HasStoredId(storage)
    /\ history \in FormatInputs

FormatNext ==
    \/ MountEffect
    \/ HistoryOkWith(history)

FormatSpec == FormatInit /\ [][FormatNext]_vars

\* ------------------------------------------------------------------------
\* The ends of the component's life.

\* The component is unmounted.  The effect of lines 19-29 returns no cleanup
\* and the cleanup of lines 36-38 only clears the interval, so nothing of
\* the capture is touched.  Callbacks that are pending still run; React
\* drops the state updates they make, so nothing reads the cells any more.
Unmount ==
    /\ mounted
    /\ ~unmounted
    /\ unmounted' = TRUE
    /\ UNCHANGED <<mounted, storage, storageWrites, ensured, conversationId,
                   historyFetch, history, isListening, isThinking,
                   mediaRecorder, audioChunks, transcript, phase, micOpen,
                   convAt, blob, request, reply, playing>>

LifecycleNext ==
    \/ Next
    \/ \E c \in Captures : BeginTurnInFirstRender(c)
    \/ Unmount

LifecycleSpec == Init /\ [][LifecycleNext]_vars

\* ------------------------------------------------------------------------
\* Properties

IsPrefix(s, t) == Len(s) <= Len(t) /\ \A i \in 1..Len(s) : s[i] = t[i]

Recording == {c \in Captures : phase[c] = "recording"}

Exchanging == {c \in Captures : phase[c] = "exchanging"}

\* C1: every step leaves the previous transcript as an unchanged prefix of
\* the new transcript (append-only: no entry is removed or changed).
C1_TranscriptAppendOnly == [][IsPrefix(transcript, transcript')]_vars

\* C2: while the button shows "not listening" and an exchange is pending or
\* a reply is being played, no stream obtained by getUserMedia is open.
C2_MicReleasedWhileExchanging ==
    (~isListening /\ (Exchanging # {} \/ playing # {})) => micOpen = {}

\* C3: while isThinking is true no begin-turn is accepted, and isListening
\* and isThinking are never both true.
C3_NoBeginWhileThinking ==
    [][/\ isThinking => \A c \in Captures :
                           ~(phase[c] = "free" /\ phase'[c] = "granting")
       /\ ~(isListening' /\ isThinking')]_vars

\* C4: at most one MediaRecorder is in the recording state.
C4_AtMostOneRecorder == Cardinality(Recording) <= 1

\* C5: at most one debate-turn request is outstanding.
C5_AtMostOneExchange == Cardinality(Exchanging) <= 1

\* C6: the step in which a capture's exchange fails leaves isThinking and
\* isListening false and appends exactly the entry
\* {System, "Error processing audio."} to the transcript.
C6_ExchangeFailureReturnsToIdle ==
    [][\A c \in Captures :
          (phase[c] = "exchanging" /\ phase'[c] = "exchangeFailed")
          => /\ ~isThinking'
             /\ ~isListening'
             /\ transcript' = Append(transcript, ExchangeErrorEntry)]_vars

\* C7: the step in which microphone acquisition fails (getUserMedia rejects,
\* or the recorder cannot be created or started) leaves isListening and
\* isThinking false, the transcript unchanged, and no stream of that
\* attempt open.
C7_AcquisitionFailureStaysIdle ==
    [][\A c \in Captures :
          (phase[c] = "granting"
           /\ phase'[c] \in {"denied", "createFailed", "startFailed"})
          => /\ ~isListening'
             /\ ~isThinking'
             /\ transcript' = transcript
             /\ c \notin micOpen']_vars

\* C8: the step that receives a successful reply without
\* ai_response_audio_base64 appends exactly one Agent entry with the reply
\* text, starts no playback, appends no System entry and clears isThinking.
C8_SilentReplyCompletesTurn ==
    [][\A c \in Captures :
          (/\ phase[c] = "exchanging"
           /\ phase'[c] \in {"replied", "playThrew"}
           /\ reply'[c].ai_response_audio_base64 = "undefined")
          => /\ transcript' = Append(transcript, AgentEntry(reply'[c].ai_response_text))
             /\ playing' = playing
             /\ ~isThinking']_vars

\* A silent reply has completed a turn: its Agent entry ends the
\* transcript, nothing is played and isThinking is false.
C8_Witness ==
    \E c \in Captures :
        /\ phase[c] = "replied"
        /\ reply[c].ai_response_audio_base64 = "undefined"
        /\ c \notin playing
        /\ ~isThinking
        /\ Len(transcript) >= 2
        /\ transcript[Len(transcript)] = AgentEntry(reply[c].ai_response_text)

\* C9: a playback failure changes nothing but the log: when creating or
\* starting the audio element fails, the step appends only the Agent entry
\* and clears isThinking; when the promise of play() settles, transcript and
\* isThinking are unchanged.
C9_PlaybackFailureOnlyLogged ==
    [][\A c \in Captures :
          /\ (phase[c] = "exchanging" /\ phase'[c] = "playThrew")
             => /\ ~isThinking'
                /\ transcript' = Append(transcript, AgentEntry(reply'[c].ai_response_text))
          /\ (c \in playing /\ c \notin playing')
             => (transcript' = transcript /\ isThinking' = isThinking)]_vars

\* phases of a capture whose onstop has ended, by failure or success
Finished == {"encodeFailed", "exchangeFailed", "replied", "playThrew"}

\* no asynchronous step of any capture is pending and nothing is recording
NothingPending ==
    /\ \A c \in Captures :
          phase[c] \notin {"granting", "recording", "stopped", "encoding", "exchanging"}
    /\ playing = {}

\* C10: once a stopped capture has run through its steps, failed or not, and
\* no asynchronous step is pending, the machine is Idle.
C10_EveryPathReturnsToIdle ==
    ((\E c \in Captures : phase[c] \in Finished) /\ NothingPending)
    => (~isListening /\ ~isThinking)

\* C11: successive runs of the mount effect over the same localStorage set
\* the same conversation id, write the 'conversationId' key at most once,
\* and write nothing while an id stored before the first run exists.
C11_EnsureIdIdempotent ==
    /\ \A i, j \in 1..Len(ensured) : ensured[i] = ensured[j]
    /\ storageWrites <= 1
    /\ ensured # <<>> => storage = ensured[1]
    /\ storage \notin MintedIds => storageWrites = 0

\* The effect has run twice: the first run minted and stored an id, the
\* second run found it.
C11_Witness ==
    /\ mounted
    /\ Len(ensured) = 2
    /\ storageWrites = 1
    /\ conversationId = ensured[1]

\* C12: the conversation_id of every debate-turn request that is outstanding
\* is the id stored under 'conversationId', and is not empty.
C12_RequestCarriesStoredId ==
    \A c \in Captures :
        phase[c] = "exchanging"
        => (request[c].conversation_id = storage
            /\ request[c].conversation_id # "")

\* C17: after the component is unmounted no recorder is recording and no
\* microphone stream is open.
C17_ReleasedOnTeardown ==
    unmounted => (Recording = {} /\ micOpen = {})

\* C13: in a session that found no stored id and minted one, the mount
\* effect has issued the history load for the minted id.
C13_FreshSessionLoadsHistory ==
    (mounted /\ storageWrites = 1) => historyFetch # "none"

\* C14: the step that completes the history load is taken while no turn has
\* begun and the machine is Idle.
C14_HistoryLoadBeforeAnyTurn ==
    [][(historyFetch = "pending" /\ historyFetch' # "pending")
       => /\ \A c \in Captures : phase[c] = "free"
          /\ ~isListening
          /\ ~isThinking]_vars

\* C15: the step in which the history load ends in "not found" leaves the
\* transcript as exactly [{System, "No conversation history found."}]; the
\* step in which it ends in another failure (status, network, body) leaves
\* it as exactly [{System, "Error loading conversation history."}].
C15_FailedLoadYieldsOneSystemEntry ==
    [][/\ (historyFetch = "pending" /\ historyFetch' = "notFound")
          => transcript' = <<[speaker |-> "System",
                              message |-> "No conversation history found."]>>
       /\ (historyFetch = "pending" /\ historyFetch' \in {"httpError", "threw"})
          => transcript' = <<[speaker |-> "System",
                              message |-> "Error loading conversation history."]>>]_vars

\* A failed load has replaced a transcript that already held a turn's entry.
C15_Witness ==
    /\ historyFetch \in {"notFound", "httpError", "threw"}
    /\ Len(transcript) = 1
    /\ transcript[1].speaker = "System"
    /\ \E c \in Captures : phase[c] \in {"exchanging", "exchangeFailed", "replied"}

\* the entry the contract gives to a prior turn: Agent with the reply text
\* when the turn has a reply (an empty text included), Human otherwise
ContractEntry(ai_response) ==
    IF ai_response # "undefined"
    THEN [speaker |-> "AI", message |-> ai_response]
    ELSE [speaker |-> "You", message |-> "Audio Turn"]

\* C16: after a successful load of a list of n prior turns the transcript
\* has n entries in the list's order, entry i being the contract's entry of
\* turn i.
C16_HistoryReconstruction ==
    historyFetch = "loaded"
    => /\ Len(transcript) = Len(history)
       /\ \A i \in 1..Len(history) : transcript[i] = ContractEntry(history[i])

\* C18: the step in which a capture's exchange is answered leaves the
\* transcript ending in that turn's {You, "Audio Turn"} followed directly by
\* {AI, reply text}, and leaves the machine Idle.
C18_TurnEntriesAdjacent ==
    [][\A c \in Captures :
          (phase[c] = "exchanging" /\ phase'[c] = "replied")
          => /\ Len(transcript') >= 2
             /\ transcript'[Len(transcript') - 1] = HumanEntry
             /\ transcript'[Len(transcript')]
                    = AgentEntry(reply'[c].ai_response_text)
             /\ ~isListening'
             /\ ~isThinking']_vars

\* C19: the blob built for a capture holds exactly the fragments delivered
\* to that capture's recorder.
C19_PayloadIsOwnFragments ==
    \A c \in Captures : phase[c] = "encoding" => blob[c] = NewBlob(<<c>>)

\* C20: isThinking is true exactly while some stopped capture has its
\* finalization, its encoding or its exchange pending.
C20_ThinkingTracksPendingWork ==
    isThinking <=> \E c \in Captures : phase[c] \in {"stopped", "encoding", "exchanging"}

====
